---- MODULE Spec2Model ----
(***************************************************************************)
(* A model of the three consumers of the warp kernel framework:            *)
(*   warp/tests/test_tile.py                  tile load/store/map tests    *)
(*   benchmarks/benchmarks/launch_api.py      launch overhead benchmarks   *)
(*   warp/examples/tile/example_tile_cholesky.py   Cholesky example        *)
(* The kernels, the test and benchmark methods and the example script are  *)
(* translated statement by statement into programs (sequences of           *)
(* statements).  The framework that runs them (streams, tile load/store,   *)
(* the tape, graph capture) is not part of these files; its behaviour is   *)
(* the one the specification document states for it.                       *)
(*                                                                         *)
(* float32 values are fixed-point numbers in thousandths (One = 1.0);      *)
(* np.allclose is exact equality, as the model's arithmetic is exact.      *)
(***************************************************************************)
EXTENDS Integers, Sequences, FiniteSets, TLC

\* ------------------------------------------------------------- bounds
\* Largest number of tiles in a launch grid (the tests use 7 x 5).
MaxTiles == 3
\* Number of random generator seeds the inputs are drawn from.
NumSeeds == 2
\* Largest number of statements a free session host issues.
MaxCalls == 5
\* Length of the benchmarks' test_array (8192 in launch_api.py).
N == 2
\* Largest number of timed calls between a setup and its teardown (asv's
\* number; 5000 or 10000 in launch_api.py).
MaxTimed == 2

\* The side of the Cholesky example's one tile (32 in the source).
TILE == 3

\* ---------------------------------------------------------- constants
TILE_M == 8
TILE_N == 4
\* 1.0 in thousandths.
One == 1000

VARIABLES
    \* --- the tile tests and the tape session
    mode,       \* which host program runs: a test's name, or "session"
    hpc,        \* the host's position: index of the next statement
    hostErr,    \* "" or the exception that ended the host program
    last,       \* the statement the host executed last
    printed,    \* the lines the host has printed
    shape,      \* <<gm, gn>>: the launch grid; arrays are gm*TILE_M x gn*TILE_N
    seed,       \* the random generator's seed
    prim,       \* array name -> contents
    grad,       \* array name -> gradient buffer contents
    tape,       \* [state, launches]
    queue,      \* the device stream: operations enqueued, not yet started
    dev,        \* the operation the device is executing (kind "idle": none)
    inv,        \* tile index -> the invocation's [pc, reg, adj]
    stores,     \* element -> the invocations that stored to it, current launch
    retired,    \* the kinds of the operations the device has completed
    bwdLog,     \* tape indices of the launches whose gradient pass has started
    \* --- the launch benchmarks
    bench,      \* [class, method]: the benchmark being run
    bphase,     \* "setup", "timed", "teardown" or "done"
    bpc,        \* index of the next statement of the method being run
    calls,      \* number of timed calls completed
    blast,      \* the statement executed last
    self,       \* the benchmark object's attributes
    mem,        \* array handle -> contents
    capturing,  \* inside a wp.ScopedCapture block
    captured,   \* the launches recorded by the capture so far
    squeue,     \* stream -> operations enqueued, not yet started
    srun,       \* stream -> the operation it is executing (kernel "": none)
    sthr,       \* stream -> thread -> [pc, reg] of the running operation
    completed,  \* stream -> number of launches completed
    \* --- the Cholesky example
    np_type,    \* the element type: "float64" or "float32"
    cpc,        \* index of the script's next statement
    cerr,       \* "" or the exception that ended the script
    cprinted,   \* the lines printed (their first words)
    carr,       \* device array -> what it holds, relative to the reference
    cdev,       \* index of the kernel's next operation (0: not launched)
    creg        \* the kernel's tiles l and y, relative to the reference

tileVars == <<mode, hpc, hostErr, last, printed, shape, seed, prim, grad,
              tape, queue, dev, inv, stores, retired, bwdLog>>

benchVars == <<bench, bphase, bpc, calls, blast, self, mem, capturing, captured,
               squeue, srun, sthr, completed>>

cholVars == <<np_type, cpc, cerr, cprinted, carr, cdev, creg>>

vars == <<tileVars, benchVars, cholVars>>

\* ===================================================================
\* Arrays and tiles
\* ===================================================================
ArrNames == {"A", "B", "C"}
RegNames == {"a", "b", "sa"}

Shapes == {s \in (1..MaxTiles) \X (1..MaxTiles) : s[1] * s[2] <= MaxTiles}

\* Arrays are row-major: element (r, c) of an array of NCols(s) columns is at
\* offset r * NCols(s) + c; a tile's element (r, c) is at offset r * TILE_N + c.
NRows(s) == s[1] * TILE_M
NCols(s) == s[2] * TILE_N
ArrDom(s) == 0..(NRows(s) * NCols(s) - 1)
TileDom == 0..(TILE_M * TILE_N - 1)
RowOf(x, s) == x \div NCols(s)
ColOf(x, s) == x % NCols(s)
Grid(s) == (0..(s[1] - 1)) \X (0..(s[2] - 1))

Const(s, v) == [x \in ArrDom(s) |-> v]
ZeroTile == [e \in TileDom |-> 0]

\* rng.random((M, N)): the k-th array drawn from the generator seeded sd.
\* Values are in [0, 1), on a grid of fifths.
Rand(sd, k, s) ==
    [x \in ArrDom(s) |-> ((RowOf(x, s) + 3 * ColOf(x, s) + sd + 2 * k) % 5) * 200]

\* wp.sin / np.sin and np.cos on the grid of input values, in thousandths.
SinOf(x) == CASE x = 0 -> 0 [] x = 200 -> 199 [] x = 400 -> 389
              [] x = 600 -> 565 [] x = 800 -> 717
CosOf(x) == CASE x = 0 -> 1000 [] x = 200 -> 980 [] x = 400 -> 921
              [] x = 600 -> 825 [] x = 800 -> 697
Mul(x, y) == (x * y) \div One

\* Element x lies in the block of tile index q.
InBlock(x, q, s) ==
    /\ RowOf(x, s) \div TILE_M = q[1]
    /\ ColOf(x, s) \div TILE_N = q[2]

\* The offset in its tile of element x, and the offset in the array of element
\* e of the tile at index q.
InTile(x, s) == (RowOf(x, s) % TILE_M) * TILE_N + (ColOf(x, s) % TILE_N)
InArray(e, q, s) ==
    (q[1] * TILE_M + (e \div TILE_N)) * NCols(s) + q[2] * TILE_N + (e % TILE_N)

\* tile_load(arr, i, j, m, n): the m x n block at origin (i*m, j*n).
\* What a tile outside the array does is not specified, and no test leaves the
\* array: here such a load reads zeros and such a store writes nothing.
LoadTile(arr, q, s) ==
    [e \in TileDom |-> IF q \in Grid(s) THEN arr[InArray(e, q, s)] ELSE 0]

\* tile_store(arr, i, j, t): writes the block back at origin (i*m, j*n).
StoreTile(arr, q, t, s) ==
    [x \in DOMAIN arr |-> IF InBlock(x, q, s) THEN t[InTile(x, s)] ELSE arr[x]]

\* The adjoint of tile_load: the block of the gradient buffer accumulates t.
AccumTile(arr, q, t, s) ==
    [x \in DOMAIN arr |-> IF InBlock(x, q, s) THEN arr[x] + t[InTile(x, s)] ELSE arr[x]]

AddTile(t, u) == [e \in TileDom |-> t[e] + u[e]]

\* ===================================================================
\* Kernels (test_tile.py)
\* ===================================================================
Load(p, d) == [op |-> "tile_load", arr |-> p, ti |-> "i", tj |-> "j",
               fn |-> "", ins |-> <<>>, reg |-> d]
Store(p, r) == [op |-> "tile_store", arr |-> p, ti |-> "i", tj |-> "j",
                fn |-> "", ins |-> <<>>, reg |-> r]
Map(f, rs, d) == [op |-> "tile_map", arr |-> 0, ti |-> "i", tj |-> "j",
                  fn |-> f, ins |-> rs, reg |-> d]

\* A slip: the column tile index passed to the store is i.
tile_copy_ii ==
    << Load(1, "a"),
       [op |-> "tile_store", arr |-> 2, ti |-> "i", tj |-> "i",
        fn |-> "", ins |-> <<>>, reg |-> "a"] >>

tile_copy == << Load(1, "a"), Store(2, "a") >>

tile_unary_map == << Load(1, "a"), Map("unary_func", <<"a">>, "sa"), Store(2, "sa") >>

tile_binary_map ==
    << Load(1, "a"), Load(2, "b"), Map("binary_func", <<"a", "b">>, "sa"),
       Store(3, "sa") >>

unary_func(x) == SinOf(x)

\* A slip: the operands exchanged.
binary_func_swapped(x, y) == SinOf(y) + x

binary_func(x, y) == SinOf(x) + y

Kernel(name) ==
    CASE name = "tile_copy" -> tile_copy
      [] name = "tile_unary_map" -> tile_unary_map
      [] name = "tile_binary_map" -> tile_binary_map

\* The function a tile_map applies, and its adjoint: the list of the partial
\* derivatives times the incoming adjoint g (the derivative of sin is cos).
Apply(f, xs) ==
    CASE f = "unary_func" -> unary_func(xs[1])
      [] f = "binary_func" -> binary_func(xs[1], xs[2])

ApplyAdjoint(f, xs, g) ==
    CASE f = "unary_func" -> << Mul(CosOf(xs[1]), g) >>
      [] f = "binary_func" -> << Mul(CosOf(xs[1]), g), g >>

Comp(n, t) == IF n = "i" THEN t[1] ELSE t[2]
TileIdx(o, t) == << Comp(o.ti, t), Comp(o.tj, t) >>

\* ===================================================================
\* The device: one stream, whose operations run in the order enqueued;
\* the invocations of a launch run concurrently, one operation at a time.
\* ===================================================================
Idle == [kind |-> "idle", kernel |-> "", args |-> <<>>, k |-> 0]
FwdOp(kn, as) == [kind |-> "forward", kernel |-> kn, args |-> as, k |-> 0]
AdjOp(l, i) == [kind |-> "adjoint", kernel |-> l.kernel, args |-> l.args, k |-> i]
FillOp(a) == [kind |-> "fill", kernel |-> "", args |-> <<a>>, k |-> 0]

NoRegs == [r \in RegNames |-> ZeroTile]
NoStores == [x \in ArrDom(shape) |-> <<>>]

\* The primal registers of invocation t before operation n of prog, computed
\* from the arrays as the forward pass computes them.
RECURSIVE Replay(_, _, _, _)
Replay(prog, as, t, n) ==
    IF n = 0 THEN NoRegs
    ELSE LET regs == Replay(prog, as, t, n - 1)
             o == prog[n]
         IN  CASE o.op = "tile_load" ->
                    [regs EXCEPT ![o.reg] = LoadTile(prim[as[o.arr]], TileIdx(o, t), shape)]
               [] o.op = "tile_map" ->
                    [regs EXCEPT ![o.reg] =
                        [e \in TileDom |-> Apply(o.fn, [i \in DOMAIN o.ins |-> regs[o.ins[i]][e]])]]
               [] o.op = "tile_store" -> regs

DevStart ==
    /\ dev.kind = "idle"
    /\ queue # <<>>
    /\ dev' = Head(queue)
    /\ queue' = Tail(queue)
    /\ inv' = [t \in Grid(shape) |->
                 [pc |-> IF Head(queue).kind = "adjoint"
                         THEN Len(Kernel(Head(queue).kernel)) ELSE 1,
                  reg |-> NoRegs, adj |-> NoRegs]]
    /\ stores' = IF Head(queue).kind = "forward" THEN NoStores ELSE stores
    /\ bwdLog' = IF Head(queue).kind = "adjoint"
                 THEN Append(bwdLog, Head(queue).k) ELSE bwdLog
    /\ UNCHANGED <<benchVars, cholVars, mode, hpc, hostErr, last, printed, shape, seed, prim, grad,
                   tape, retired>>

\* One operation of the forward kernel by invocation t.
DevForward(t) ==
    /\ dev.kind = "forward"
    /\ inv[t].pc <= Len(Kernel(dev.kernel))
    /\ LET o == Kernel(dev.kernel)[inv[t].pc]
           q == TileIdx(o, t)
           regs == inv[t].reg
       IN  /\ CASE o.op = "tile_load" ->
                    /\ inv' = [inv EXCEPT ![t].pc = @ + 1,
                                 ![t].reg[o.reg] = LoadTile(prim[dev.args[o.arr]], q, shape)]
                    /\ UNCHANGED <<prim, stores>>
                [] o.op = "tile_map" ->
                    /\ inv' = [inv EXCEPT ![t].pc = @ + 1,
                                 ![t].reg[o.reg] =
                                    [e \in TileDom |->
                                        Apply(o.fn, [i \in DOMAIN o.ins |-> regs[o.ins[i]][e]])]]
                    /\ UNCHANGED <<prim, stores>>
                [] o.op = "tile_store" ->
                    /\ inv' = [inv EXCEPT ![t].pc = @ + 1]
                    /\ prim' = [prim EXCEPT ![dev.args[o.arr]] = StoreTile(@, q, regs[o.reg], shape)]
                    /\ stores' = [x \in DOMAIN stores |->
                                    IF InBlock(x, q, shape) THEN Append(stores[x], t)
                                    ELSE stores[x]]
    /\ UNCHANGED <<benchVars, cholVars, mode, hpc, hostErr, last, printed, shape, seed, grad, tape,
                   queue, dev, retired, bwdLog>>

\* One operation of the adjoint kernel by invocation t: the forward
\* operations in reverse, each propagating the adjoint of what it wrote to the
\* adjoints of what it read.
DevAdjoint(t) ==
    /\ dev.kind = "adjoint"
    /\ inv[t].pc >= 1
    /\ LET prog == Kernel(dev.kernel)
           o == prog[inv[t].pc]
           q == TileIdx(o, t)
           adj == inv[t].adj
       IN  CASE o.op = "tile_store" ->
                 /\ inv' = [inv EXCEPT ![t].pc = @ - 1,
                              ![t].adj[o.reg] =
                                 AddTile(@, LoadTile(grad[dev.args[o.arr]], q, shape))]
                 /\ UNCHANGED grad
             [] o.op = "tile_map" ->
                 LET regs == Replay(prog, dev.args, t, inv[t].pc - 1)
                     part(e) == ApplyAdjoint(o.fn,
                                    [i \in DOMAIN o.ins |-> regs[o.ins[i]][e]],
                                    adj[o.reg][e])
                 IN  /\ inv' = [inv EXCEPT ![t].pc = @ - 1,
                                  ![t].adj = [r \in RegNames |->
                                     IF \E i \in DOMAIN o.ins : o.ins[i] = r
                                     THEN [e \in TileDom |->
                                            adj[r][e] +
                                            part(e)[CHOOSE i \in DOMAIN o.ins : o.ins[i] = r]]
                                     ELSE adj[r]]]
                     /\ UNCHANGED grad
             [] o.op = "tile_load" ->
                 /\ inv' = [inv EXCEPT ![t].pc = @ - 1]
                 /\ grad' = [grad EXCEPT ![dev.args[o.arr]] = AccumTile(@, q, adj[o.reg], shape)]
    /\ UNCHANGED <<benchVars, cholVars, mode, hpc, hostErr, last, printed, shape, seed, prim, tape,
                   queue, dev, stores, retired, bwdLog>>

\* wp.ones_like(B) assigned to B.grad: every element of the buffer is 1.0.
DevFill ==
    /\ dev.kind = "fill"
    /\ grad' = [grad EXCEPT ![dev.args[1]] = Const(shape, One)]
    /\ dev' = Idle
    /\ retired' = Append(retired, "fill")
    /\ UNCHANGED <<benchVars, cholVars, mode, hpc, hostErr, last, printed, shape, seed, prim, tape,
                   queue, inv, stores, bwdLog>>

InvDone(t) ==
    IF dev.kind = "adjoint" THEN inv[t].pc = 0
    ELSE inv[t].pc > Len(Kernel(dev.kernel))

\* The launch is complete once every invocation has run to its end.
DevFinish ==
    /\ dev.kind \in {"forward", "adjoint"}
    /\ \A t \in DOMAIN inv : InvDone(t)
    /\ dev' = Idle
    /\ retired' = Append(retired, dev.kind)
    /\ UNCHANGED <<benchVars, cholVars, mode, hpc, hostErr, last, printed, shape, seed, prim, grad,
                   tape, queue, inv, stores, bwdLog>>

Drained == queue = <<>> /\ dev.kind = "idle"

\* ===================================================================
\* Host programs (test_tile.py): each test is its statements in order.
\* ===================================================================
Stmt(s, kn, as, nm) == [stmt |-> s, kernel |-> kn, args |-> as, name |-> nm]

WithTape == Stmt("tape_enter", "", <<>>, "")
EndWith == Stmt("tape_exit", "", <<>>, "")
Raise == Stmt("raise", "", <<>>, "")
Launch(kn, as) == Stmt("launch", kn, as, "")
AssertThat(nm) == Stmt("assert", "", <<>>, nm)
PrintLine(nm) == Stmt("print", "", <<>>, nm)
SeedGrad(a) == Stmt("seed_grad", "", <<a>>, "")
Backward == Stmt("tape_backward", "", <<>>, "")

\* A slip: the launch's inputs exchanged.
test_tile_copy_exchanged ==
    << WithTape,
       Launch("tile_copy", <<"B", "A">>),
       EndWith,
       AssertThat("copy_forward"),
       PrintLine("Copy forward passed"),
       SeedGrad("B"),
       Backward,
       AssertThat("copy_backward"),
       PrintLine("Copy backward passed") >>

\* A slip: the input's gradient seeded instead of the output's.
test_tile_copy_seed_input ==
    << WithTape,
       Launch("tile_copy", <<"A", "B">>),
       EndWith,
       AssertThat("copy_forward"),
       PrintLine("Copy forward passed"),
       SeedGrad("A"),
       Backward,
       AssertThat("copy_backward"),
       PrintLine("Copy backward passed") >>

test_tile_copy ==
    << WithTape,
       Launch("tile_copy", <<"A", "B">>),
       EndWith,
       AssertThat("copy_forward"),
       PrintLine("Copy forward passed"),
       SeedGrad("B"),
       Backward,
       AssertThat("copy_backward"),
       PrintLine("Copy backward passed") >>

\* A slip: the reverse pass invoked a second time.
test_tile_unary_map_twice ==
    << WithTape,
       Launch("tile_unary_map", <<"A", "B">>),
       EndWith,
       AssertThat("unary_forward"),
       PrintLine("Unary map forward passed"),
       SeedGrad("B"),
       Backward,
       Backward,
       AssertThat("unary_backward"),
       PrintLine("Unary map backward passed") >>

test_tile_unary_map ==
    << WithTape,
       Launch("tile_unary_map", <<"A", "B">>),
       EndWith,
       AssertThat("unary_forward"),
       PrintLine("Unary map forward passed"),
       SeedGrad("B"),
       Backward,
       AssertThat("unary_backward"),
       PrintLine("Unary map backward passed") >>

test_tile_binary_map ==
    << WithTape,
       Launch("tile_binary_map", <<"A", "B", "C">>),
       EndWith,
       AssertThat("binary_forward"),
       PrintLine("Binary map forward passed"),
       SeedGrad("C"),
       Backward,
       AssertThat("binary_backward"),
       PrintLine("Binary map backward passed") >>

Tests == {"test_tile_copy", "test_tile_unary_map", "test_tile_binary_map"}

Script(m) ==
    CASE m = "test_tile_copy" -> test_tile_copy
      [] m = "test_tile_unary_map" -> test_tile_unary_map
      [] m = "test_tile_binary_map" -> test_tile_binary_map

\* The numpy arrays a test draws, and the device arrays it builds from them:
\* the unary test's output and the binary test's output start as zeros.
NumpyArrays(m, sd, s) ==
    [A |-> Rand(sd, 0, s),
     B |-> IF m = "test_tile_unary_map" THEN Const(s, 0) ELSE Rand(sd, 1, s),
     C |-> Const(s, 0)]

\* What each assertion of the tests compares.
Check(nm) ==
    LET np == NumpyArrays(mode, seed, shape)
    IN  CASE nm = "copy_forward" -> prim["B"] = np.A
          [] nm = "copy_backward" -> grad["A"] = grad["B"]
          [] nm = "unary_forward" ->
                prim["B"] = [x \in ArrDom(shape) |-> SinOf(np.A[x])]
          [] nm = "unary_backward" ->
                grad["A"] = [x \in ArrDom(shape) |-> CosOf(np.A[x])]
          [] nm = "binary_forward" ->
                prim["C"] = [x \in ArrDom(shape) |-> SinOf(np.A[x]) + np.B[x]]
          [] nm = "binary_backward" ->
                /\ grad["A"] = [x \in ArrDom(shape) |-> CosOf(np.A[x])]
                /\ grad["B"] = Const(shape, One)

\* A free host: any caller of the session interface, which has seeded the
\* gradient of C beforehand.  tape_exit and raise leave the scope, so they are
\* issued only inside it.
SessionStmts ==
    { WithTape, EndWith, Raise, Backward,
      Launch("tile_copy", <<"A", "B">>), Launch("tile_copy", <<"B", "C">>) }

NextStmts ==
    IF hostErr # "" THEN {}
    ELSE IF mode = "session"
    THEN IF hpc > MaxCalls THEN {}
         ELSE {s \in SessionStmts :
                 s.stmt \in {"tape_exit", "raise"} => tape.state = "Recording"}
    ELSE IF hpc > Len(Script(mode)) THEN {}
    ELSE {Script(mode)[hpc]}

Issue(s) ==
    /\ s \in NextStmts
    /\ last' = s
    /\ hpc' = hpc + 1

\* ===================================================================
\* The differentiable execution session (tape):
\* Idle -> Recording -> Recorded -> Consumed.
\* ===================================================================
NewTape == [state |-> "Idle", launches |-> <<>>]

\* Opening the scope begins intercepting launches.
TapeEnter ==
    /\ Issue(WithTape)
    /\ IF tape.state = "Idle"
       THEN tape' = [tape EXCEPT !.state = "Recording"] /\ hostErr' = hostErr
       ELSE tape' = tape /\ hostErr' = "StateError"
    /\ UNCHANGED <<benchVars, cholVars, mode, printed, shape, seed, prim, grad, queue, dev, inv,
                   stores, retired, bwdLog>>

\* wp.launch: enqueues the kernel over the grid; a recording session
\* appends the launch to its record.
HostLaunch ==
    \E s \in NextStmts :
        /\ s.stmt = "launch"
        /\ Issue(s)
        /\ queue' = Append(queue, FwdOp(s.kernel, s.args))
        /\ tape' = IF tape.state = "Recording"
                   THEN [tape EXCEPT !.launches =
                            Append(@, [kernel |-> s.kernel, args |-> s.args])]
                   ELSE tape
        /\ UNCHANGED <<benchVars, cholVars, mode, hostErr, printed, shape, seed, prim, grad, dev, inv,
                       stores, retired, bwdLog>>

\* Closing the scope finalizes the record.
TapeExit ==
    /\ Issue(EndWith)
    /\ tape' = [tape EXCEPT !.state = "Recorded"]
    /\ UNCHANGED <<benchVars, cholVars, mode, hostErr, printed, shape, seed, prim, grad, queue, dev,
                   inv, stores, retired, bwdLog>>

\* An error inside the scope: the scope is closed on this exit path too, and
\* the exception ends the host program.
TapeRaise ==
    /\ Issue(Raise)
    /\ tape' = [tape EXCEPT !.state = "Recorded"]
    /\ hostErr' = "Exception"
    /\ UNCHANGED <<benchVars, cholVars, mode, printed, shape, seed, prim, grad, queue, dev, inv,
                   stores, retired, bwdLog>>

\* B.grad = wp.ones_like(B)
HostSeedGrad ==
    \E s \in NextStmts :
        /\ s.stmt = "seed_grad"
        /\ Issue(s)
        /\ queue' = Append(queue, FillOp(s.args[1]))
        /\ UNCHANGED <<benchVars, cholVars, mode, hostErr, printed, shape, seed, prim, grad, tape, dev,
                       inv, stores, retired, bwdLog>>

\* A slip: the record walked in the order of recording.
ForwardOrderPass(ls) == [i \in 1..Len(ls) |-> AdjOp(ls[i], i)]

\* The adjoint launches of the record, last recorded first.
ReversePass(ls) == [i \in 1..Len(ls) |-> AdjOp(ls[Len(ls) + 1 - i], Len(ls) + 1 - i)]

\* tape.backward(): the reverse pass consumes a Recorded session; in any
\* other state it is a state error and nothing runs.
TapeBackward ==
    /\ Issue(Backward)
    /\ IF tape.state = "Recorded"
       THEN /\ queue' = queue \o ReversePass(tape.launches)
            /\ tape' = [tape EXCEPT !.state = "Consumed"]
            /\ hostErr' = hostErr
       ELSE /\ hostErr' = "StateError"
            /\ UNCHANGED <<queue, tape>>
    /\ UNCHANGED <<benchVars, cholVars, mode, printed, shape, seed, prim, grad, dev, inv, stores,
                   retired, bwdLog>>

\* assert np.allclose(...): reading an array back waits for the device; a
\* failed comparison ends the host program.
HostAssert ==
    \E s \in NextStmts :
        /\ s.stmt = "assert"
        /\ Drained
        /\ Issue(s)
        /\ hostErr' = IF Check(s.name) THEN hostErr ELSE "AssertionError"
        /\ UNCHANGED <<benchVars, cholVars, mode, printed, shape, seed, prim, grad, tape, queue, dev,
                       inv, stores, retired, bwdLog>>

HostPrint ==
    \E s \in NextStmts :
        /\ s.stmt = "print"
        /\ Issue(s)
        /\ printed' = Append(printed, s.name)
        /\ UNCHANGED <<benchVars, cholVars, mode, hostErr, shape, seed, prim, grad, tape, queue, dev,
                       inv, stores, retired, bwdLog>>

\* ===================================================================
\* Kernels (launch_api.py): each thread runs the operations in order.
\* ===================================================================
KOp(o, path) == [op |-> o, arr |-> path]

\* a[tid] = a[tid] + 1.0
inc_kernel == << KOp("tid", <<>>), KOp("load", <<"a">>), KOp("store_plus_one", <<"a">>) >>

\* A slip: the struct kernel increments its first array.
ksz_writing == << KOp("tid", <<>>), KOp("load", <<"s", "a">>), KOp("store_plus_one", <<"s", "a">>) >>

ksz == << KOp("tid", <<>>) >>
kz == << KOp("tid", <<>>) >>
ks0 == << KOp("tid", <<>>) >>
k0 == << KOp("tid", <<>>) >>

BKernel(name) ==
    CASE name = "inc_kernel" -> inc_kernel
      [] name = "ksz" -> ksz
      [] name = "kz" -> kz
      [] name = "ks0" -> ks0
      [] name = "k0" -> k0

\* The kernels' parameter lists.
Params(name) ==
    CASE name = "inc_kernel" -> << "a" >>
      [] name = "ksz" -> << "s" >>
      [] name = "kz" -> << "a", "b", "c", "x", "y", "z", "u", "v", "w" >>
      [] name = "ks0" -> << "s" >>
      [] name = "k0" -> << >>

\* The fields of struct Sz, in order.
SzFields == << "a", "b", "c", "x", "y", "z", "u", "v", "w" >>

\* The value a kernel's path names: a parameter, or a field of a struct
\* parameter.
Resolve(name, inputs, path) ==
    LET i == CHOOSE j \in DOMAIN Params(name) : Params(name)[j] = path[1]
    IN  IF Len(path) = 1 THEN inputs[i] ELSE inputs[i][path[2]]

\* ===================================================================
\* Benchmark methods (launch_api.py): each is its statements in order.
\* ===================================================================
Nop == [kind |-> "nop", attr |-> "", field |-> "", value |-> 0, kernel |-> "",
        dim |-> 0, inputs |-> <<>>, stream |-> "default", warmup |-> FALSE]

WpInit == [Nop EXCEPT !.kind = "init"]
ClearKernelCache == [Nop EXCEPT !.kind = "clear_kernel_cache"]
LoadModule == [Nop EXCEPT !.kind = "load_module"]
Zeros(a, n) == [Nop EXCEPT !.kind = "zeros", !.attr = a, !.dim = n]
NewStream(a) == [Nop EXCEPT !.kind = "stream", !.attr = a]
SetAttr(a, v) == [Nop EXCEPT !.kind = "set", !.attr = a, !.value = v]
NewStruct(a) == [Nop EXCEPT !.kind = "struct", !.attr = a]
SetField(a, f, from) == [Nop EXCEPT !.kind = "field", !.attr = a, !.field = f, !.inputs = <<from>>]
SynchronizeDevice == [Nop EXCEPT !.kind = "synchronize_device"]
WpLaunch(kn, d, ins, st) ==
    [Nop EXCEPT !.kind = "launch", !.kernel = kn, !.dim = d, !.inputs = ins, !.stream = st]
RecordCmd(a, kn, d, ins) ==
    [Nop EXCEPT !.kind = "record_cmd", !.attr = a, !.kernel = kn, !.dim = d, !.inputs = ins]
CmdLaunch(a) == [Nop EXCEPT !.kind = "cmd_launch", !.attr = a]
CaptureBegin == [Nop EXCEPT !.kind = "capture_begin"]
CaptureEnd(a) == [Nop EXCEPT !.kind = "capture_end", !.attr = a]
CaptureLaunch(a, st) == [Nop EXCEPT !.kind = "capture_launch", !.attr = a, !.stream = st]
Warmup(st) == [st EXCEPT !.warmup = TRUE]

\* for _ in range(n): st
RECURSIVE Repeat(_, _)
Repeat(n, st) == IF n = 0 THEN << >> ELSE << st >> \o Repeat(n - 1, st)

KernelLaunch_setup ==
    << WpInit, ClearKernelCache, LoadModule,
       Zeros("test_array", N),
       NewStream("stream"),
       RecordCmd("cmd", "inc_kernel", N, << "test_array" >>),
       SynchronizeDevice >>

KernelLaunch_teardown == << SynchronizeDevice >>

\* A slip: the timed method waits for the device.
time_standard_launch_synchronizing ==
    << WpLaunch("inc_kernel", N, << "test_array" >>, "default"), SynchronizeDevice >>

time_standard_launch == << WpLaunch("inc_kernel", N, << "test_array" >>, "default") >>

time_launch_on_stream == << WpLaunch("inc_kernel", N, << "test_array" >>, "stream") >>

time_launch_object == << CmdLaunch("cmd") >>

KernelLaunchParameters_setup ==
    << WpInit, ClearKernelCache, LoadModule,
       Zeros("a", 1), Zeros("b", 1), Zeros("c", 1),
       SetAttr("x", 17), SetAttr("y", 42), SetAttr("z", 99),
       SetAttr("u", << 1, 2, 3 >>), SetAttr("v", << 10, 20, 30 >>),
       SetAttr("w", << 100, 200, 300 >>),
       NewStruct("sz"),
       SetField("sz", "a", "a"), SetField("sz", "b", "b"), SetField("sz", "c", "c"),
       SetField("sz", "x", "x"), SetField("sz", "y", "y"), SetField("sz", "z", "z"),
       SetField("sz", "u", "u"), SetField("sz", "v", "v"), SetField("sz", "w", "w"),
       NewStruct("s0"),
       SynchronizeDevice >>

KernelLaunchParameters_teardown == << SynchronizeDevice >>

time_direct_full ==
    << WpLaunch("kz", 1, << "a", "b", "c", "x", "y", "z", "u", "v", "w" >>, "default") >>

time_struct_full == << WpLaunch("ksz", 1, << "sz" >>, "default") >>

time_direct_empty == << WpLaunch("k0", 1, << >>, "default") >>

time_struct_empty == << WpLaunch("ks0", 1, << "s0" >>, "default") >>

\* A slip: the synchronize that ends the setup is missing.
GraphLaunch_setup_unsynchronized ==
    << WpInit, ClearKernelCache, LoadModule,
       Zeros("test_array", N),
       NewStream("stream"),
       CaptureBegin,
       WpLaunch("inc_kernel", N, << "test_array" >>, "default"),
       CaptureEnd("graph") >>
    \o Repeat(5, Warmup(CaptureLaunch("graph", "default")))

GraphLaunch_setup ==
    << WpInit, ClearKernelCache, LoadModule,
       Zeros("test_array", N),
       NewStream("stream"),
       CaptureBegin,
       WpLaunch("inc_kernel", N, << "test_array" >>, "default"),
       CaptureEnd("graph") >>
    \o Repeat(5, Warmup(CaptureLaunch("graph", "default")))
    \o << SynchronizeDevice >>

GraphLaunch_teardown == << SynchronizeDevice >>

time_ten_graph == Repeat(10, CaptureLaunch("graph", "default"))

time_ten_graph_on_stream == Repeat(10, CaptureLaunch("graph", "stream"))

Benchmarks ==
    { [class |-> "KernelLaunch", method |-> m] :
        m \in {"time_standard_launch", "time_launch_on_stream", "time_launch_object"} }
    \cup
    { [class |-> "KernelLaunchParameters", method |-> m] :
        m \in {"time_direct_full", "time_struct_full", "time_direct_empty",
               "time_struct_empty"} }
    \cup
    { [class |-> "GraphLaunch", method |-> m] :
        m \in {"time_ten_graph", "time_ten_graph_on_stream"} }

Setup(c) ==
    CASE c = "KernelLaunch" -> KernelLaunch_setup
      [] c = "KernelLaunchParameters" -> KernelLaunchParameters_setup
      [] c = "GraphLaunch" -> GraphLaunch_setup

Teardown(c) ==
    CASE c = "KernelLaunch" -> KernelLaunch_teardown
      [] c = "KernelLaunchParameters" -> KernelLaunchParameters_teardown
      [] c = "GraphLaunch" -> GraphLaunch_teardown

Timed(m) ==
    CASE m = "time_standard_launch" -> time_standard_launch
      [] m = "time_launch_on_stream" -> time_launch_on_stream
      [] m = "time_launch_object" -> time_launch_object
      [] m = "time_direct_full" -> time_direct_full
      [] m = "time_struct_full" -> time_struct_full
      [] m = "time_direct_empty" -> time_direct_empty
      [] m = "time_struct_empty" -> time_struct_empty
      [] m = "time_ten_graph" -> time_ten_graph
      [] m = "time_ten_graph_on_stream" -> time_ten_graph_on_stream

\* The method the runner is inside.
Method ==
    CASE bphase = "setup" -> Setup(bench.class)
      [] bphase = "timed" -> Timed(bench.method)
      [] bphase = "teardown" -> Teardown(bench.class)
      [] bphase = "done" -> << >>

\* ===================================================================
\* The device of the benchmarks: streams run their operations in the
\* order enqueued; operations of different streams run concurrently.
\* ===================================================================
Streams == {"default", "stream"}
Handles == {"test_array", "a", "b", "c"}
NoLaunch == [kernel |-> "", dim |-> 0, inputs |-> << >>]
NoThreads == [t \in {} |-> 0]

BenchDrained == \A st \in Streams : squeue[st] = << >> /\ srun[st].kernel = ""

\* The launch a wp.launch statement makes: its inputs are the attributes' values.
LaunchOf(st) ==
    [kernel |-> st.kernel, dim |-> st.dim,
     inputs |-> [i \in DOMAIN st.inputs |-> self[st.inputs[i]]]]

BenchStep(st) ==
    /\ bpc <= Len(Method)
    /\ st = Method[bpc]
    /\ bpc' = bpc + 1
    /\ blast' = st
    /\ UNCHANGED <<tileVars, cholVars, bench, bphase, calls>>

\* A statement that touches neither a stream nor the capture.
BenchHost ==
    \E st \in {Method[i] : i \in DOMAIN Method} :
        /\ BenchStep(st)
        /\ st.kind \in {"init", "clear_kernel_cache", "load_module", "zeros", "stream",
                        "set", "struct", "field", "record_cmd"}
        /\ self' =
             CASE st.kind = "zeros" -> [self EXCEPT ![st.attr] = st.attr]
               [] st.kind = "stream" -> [self EXCEPT ![st.attr] = "stream"]
               [] st.kind = "set" -> [self EXCEPT ![st.attr] = st.value]
               [] st.kind = "struct" -> [self EXCEPT ![st.attr] = [f \in {} |-> 0]]
               [] st.kind = "field" ->
                    [self EXCEPT ![st.attr] =
                        [f \in DOMAIN self[st.attr] \cup {st.field} |->
                            IF f = st.field THEN self[st.inputs[1]] ELSE self[st.attr][f]]]
               [] st.kind = "record_cmd" -> [self EXCEPT ![st.attr] = LaunchOf(st)]
               [] OTHER -> self
        /\ mem' = IF st.kind = "zeros"
                  THEN [mem EXCEPT ![st.attr] = [i \in 0..(st.dim - 1) |-> 0]]
                  ELSE mem
        /\ UNCHANGED <<capturing, captured, squeue, srun, sthr, completed>>

\* wp.launch and cmd.launch(): the launch is enqueued on its stream; inside a
\* capture it is recorded and not executed.
BenchLaunch ==
    \E st \in {Method[i] : i \in DOMAIN Method} :
        /\ BenchStep(st)
        /\ st.kind \in {"launch", "cmd_launch"}
        /\ LET l == IF st.kind = "launch" THEN LaunchOf(st) ELSE self[st.attr]
           IN  IF capturing
               THEN /\ captured' = Append(captured, l)
                    /\ UNCHANGED squeue
               ELSE /\ squeue' = [squeue EXCEPT ![st.stream] = Append(@, l)]
                    /\ UNCHANGED captured
        /\ UNCHANGED <<self, mem, capturing, srun, sthr, completed>>

\* with wp.ScopedCapture(...) as capture; self.graph = capture.graph;
\* wp.capture_launch(graph, stream): the recorded launches are enqueued, in
\* order, on the stream.
BenchCapture ==
    \E st \in {Method[i] : i \in DOMAIN Method} :
        /\ BenchStep(st)
        /\ st.kind \in {"capture_begin", "capture_end", "capture_launch"}
        /\ CASE st.kind = "capture_begin" ->
                  /\ capturing' = TRUE
                  /\ captured' = << >>
                  /\ UNCHANGED <<self, squeue>>
             [] st.kind = "capture_end" ->
                  /\ capturing' = FALSE
                  /\ self' = [self EXCEPT ![st.attr] = captured]
                  /\ UNCHANGED <<captured, squeue>>
             [] st.kind = "capture_launch" ->
                  /\ squeue' = [squeue EXCEPT ![st.stream] = @ \o self[st.attr]]
                  /\ UNCHANGED <<self, capturing, captured>>
        /\ UNCHANGED <<mem, srun, sthr, completed>>

\* wp.synchronize_device: the host waits until no stream has work left.
BenchSync ==
    /\ BenchStep(SynchronizeDevice)
    /\ BenchDrained
    /\ UNCHANGED <<self, mem, capturing, captured, squeue, srun, sthr, completed>>

\* The benchmark runner: setup, then the timed method once or more, then
\* teardown.
Runner ==
    /\ bpc > Len(Method)
    /\ \/ /\ bphase = "setup"
          /\ bphase' = "timed"
          /\ calls' = calls
       \/ /\ bphase = "timed"
          /\ calls + 1 < MaxTimed
          /\ bphase' = "timed"
          /\ calls' = calls + 1
       \/ /\ bphase = "timed"
          /\ bphase' = "teardown"
          /\ calls' = calls + 1
       \/ /\ bphase = "teardown"
          /\ bphase' = "done"
          /\ calls' = calls
    /\ bpc' = 1
    /\ UNCHANGED <<tileVars, cholVars, bench, blast, self, mem, capturing, captured, squeue,
                   srun, sthr, completed>>

StreamStart(s) ==
    /\ srun[s].kernel = ""
    /\ squeue[s] # << >>
    /\ srun' = [srun EXCEPT ![s] = Head(squeue[s])]
    /\ squeue' = [squeue EXCEPT ![s] = Tail(@)]
    /\ sthr' = [sthr EXCEPT ![s] =
                  [t \in 0..(Head(squeue[s]).dim - 1) |-> [pc |-> 1, reg |-> 0]]]
    /\ UNCHANGED <<tileVars, cholVars, bench, bphase, bpc, calls, blast, self, mem, capturing,
                   captured, completed>>

\* One operation of thread t of the launch stream s is executing.
ThreadStep(s, t) ==
    /\ srun[s].kernel # ""
    /\ t \in DOMAIN sthr[s]
    /\ sthr[s][t].pc <= Len(BKernel(srun[s].kernel))
    /\ LET o == BKernel(srun[s].kernel)[sthr[s][t].pc]
           h == Resolve(srun[s].kernel, srun[s].inputs, o.arr)
       IN  CASE o.op = "tid" ->
                 /\ sthr' = [sthr EXCEPT ![s][t].pc = @ + 1]
                 /\ UNCHANGED mem
             [] o.op = "load" ->
                 /\ sthr' = [sthr EXCEPT ![s][t].pc = @ + 1, ![s][t].reg = mem[h][t]]
                 /\ UNCHANGED mem
             [] o.op = "store_plus_one" ->
                 /\ sthr' = [sthr EXCEPT ![s][t].pc = @ + 1]
                 /\ mem' = [mem EXCEPT ![h][t] = sthr[s][t].reg + 1]
    /\ UNCHANGED <<tileVars, cholVars, bench, bphase, bpc, calls, blast, self, capturing,
                   captured, squeue, srun, completed>>

StreamFinish(s) ==
    /\ srun[s].kernel # ""
    /\ \A t \in DOMAIN sthr[s] : sthr[s][t].pc > Len(BKernel(srun[s].kernel))
    /\ srun' = [srun EXCEPT ![s] = NoLaunch]
    /\ sthr' = [sthr EXCEPT ![s] = NoThreads]
    /\ completed' = [completed EXCEPT ![s] = @ + 1]
    /\ UNCHANGED <<tileVars, cholVars, bench, bphase, bpc, calls, blast, self, mem, capturing,
                   captured, squeue>>

\* ===================================================================
\* The Cholesky example (example_tile_cholesky.py)
\* ===================================================================
\* The factorization and the solve are computed by tile_cholesky and
\* tile_cholesky_solve and by numpy, none of which is in these files: an array
\* is modelled by how far it is from numpy's result for the same input.
\*   "equal"   the same values
\*   "within"  different, within np.allclose's tolerance
\*   "beyond"  different beyond the tolerance
\*   "zeros"   still the zeros it was created with (beyond the tolerance: the
\*             reference L and Y of this A and X are not zero)
Outcomes == {"equal", "within", "beyond"}

\* np.ones((TILE, TILE)) + 5 * np.diag(np.ones(TILE), 0)
A_h == [p \in (1..TILE) \X (1..TILE) |-> 1 + 5 * (IF p[1] = p[2] THEN 1 ELSE 0)]

\* np.arange(TILE).reshape((TILE, 1))
X_h == [p \in (1..TILE) \X (1..1) |-> p[1] - 1]
AllClose(c) == c \in {"equal", "within"}

COp(o, a, r) == [op |-> o, arr |-> a, reg |-> r]

cholesky ==
    << COp("tile_load", "A", "a"),
       COp("tile_cholesky", "", "l"),
       COp("tile_store", "L", "l"),
       COp("tile_load", "X", "x"),
       COp("tile_cholesky_solve", "", "y"),
       COp("tile_store", "Y", "y") >>

CStmt(k, nm) == [kind |-> k, name |-> nm]

\* A slip: the two comparisons joined by or.
example_main_or ==
    << CStmt("set_device", "cuda:0"),
       CStmt("host_array", "A_h"), CStmt("host_array", "L_h"),
       CStmt("device_array", "A"), CStmt("device_array", "L"),
       CStmt("host_array", "X_h"), CStmt("host_array", "Y_h"),
       CStmt("device_array", "X"), CStmt("device_array", "Y"),
       CStmt("launch_tiled", "cholesky"),
       CStmt("reference", "L_np"), CStmt("reference", "Y_np"),
       CStmt("print", "A:"),
       CStmt("print_device", "L (Warp):"),
       CStmt("print", "L (Numpy):"),
       CStmt("print", "x:"),
       CStmt("print_device", "A\\n (Warp):"),
       CStmt("print", "A\\x (Numpy):"),
       CStmt("assert", "or"),
       CStmt("print", "Example Tile Cholesky passed") >>

example_main ==
    << CStmt("set_device", "cuda:0"),
       CStmt("host_array", "A_h"), CStmt("host_array", "L_h"),
       CStmt("device_array", "A"), CStmt("device_array", "L"),
       CStmt("host_array", "X_h"), CStmt("host_array", "Y_h"),
       CStmt("device_array", "X"), CStmt("device_array", "Y"),
       CStmt("launch_tiled", "cholesky"),
       CStmt("reference", "L_np"), CStmt("reference", "Y_np"),
       CStmt("print", "A:"),
       CStmt("print_device", "L (Warp):"),
       CStmt("print", "L (Numpy):"),
       CStmt("print", "x:"),
       CStmt("print_device", "A\\n (Warp):"),
       CStmt("print", "A\\x (Numpy):"),
       CStmt("assert", "and"),
       CStmt("print", "Example Tile Cholesky passed") >>

CholDrained == cdev = 0 \/ cdev > Len(cholesky)

\* assert np.allclose(Y_wp.numpy(), Y_np) and np.allclose(L_wp.numpy(), L_np)
Compare(how) ==
    IF how = "and" THEN AllClose(carr["Y"]) /\ AllClose(carr["L"])
    ELSE AllClose(carr["Y"]) \/ AllClose(carr["L"])

\* One statement of the script.  Printing a device array and comparing it
\* read it back, which waits for the launch; a failed assert ends the script.
CholHost ==
    /\ cerr = ""
    /\ cpc <= Len(example_main)
    /\ LET st == example_main[cpc]
       IN  /\ st.kind \in {"print_device", "assert"} => CholDrained
           /\ carr' = IF st.kind = "device_array"
                      THEN [carr EXCEPT ![st.name] =
                              CASE st.name = "A" -> A_h
                                [] st.name = "X" -> X_h
                                [] OTHER -> "zeros"]
                      ELSE carr
           /\ cdev' = IF st.kind = "launch_tiled" THEN 1 ELSE cdev
           /\ cprinted' = IF st.kind \in {"print", "print_device"}
                          THEN Append(cprinted, st.name) ELSE cprinted
           /\ IF st.kind = "assert" /\ ~Compare(st.name)
              THEN cerr' = "AssertionError" /\ cpc' = cpc
              ELSE cerr' = cerr /\ cpc' = cpc + 1
    /\ UNCHANGED <<tileVars, benchVars, np_type, creg>>

\* One operation of the kernel's single invocation (dim = [1, 1]).
CholDevice ==
    /\ cdev >= 1
    /\ cdev <= Len(cholesky)
    /\ LET o == cholesky[cdev]
       IN  CASE o.op = "tile_load" ->
                 /\ creg' = [creg EXCEPT ![o.reg] = carr[o.arr]]
                 /\ UNCHANGED carr
             [] o.op \in {"tile_cholesky", "tile_cholesky_solve"} ->
                 /\ \E c \in Outcomes : creg' = [creg EXCEPT ![o.reg] = c]
                 /\ UNCHANGED carr
             [] o.op = "tile_store" ->
                 /\ carr' = [carr EXCEPT ![o.arr] = creg[o.reg]]
                 /\ UNCHANGED creg
    /\ cdev' = cdev + 1
    /\ UNCHANGED <<tileVars, benchVars, np_type, cpc, cerr, cprinted>>

\* ===================================================================
\* Specifications
\* ===================================================================
NoAttr == "unset"

BenchIdle ==
    /\ bench = [class |-> "", method |-> ""]
    /\ bphase = "done"
    /\ bpc = 1
    /\ calls = 0
    /\ blast = Nop
    /\ self = << >>
    /\ mem = << >>
    /\ capturing = FALSE
    /\ captured = << >>
    /\ squeue = << >>
    /\ srun = << >>
    /\ sthr = << >>
    /\ completed = << >>

CholIdle ==
    /\ np_type = ""
    /\ cpc = 1
    /\ cerr = ""
    /\ cprinted = << >>
    /\ carr = << >>
    /\ cdev = 0
    /\ creg = << >>

TileIdle ==
    /\ mode = ""
    /\ shape = << 1, 1 >>
    /\ seed = 0
    /\ hpc = 1
    /\ hostErr = ""
    /\ last = Stmt("", "", << >>, "")
    /\ printed = << >>
    /\ prim = << >>
    /\ grad = << >>
    /\ tape = NewTape
    /\ queue = << >>
    /\ dev = Idle
    /\ inv = << >>
    /\ stores = << >>
    /\ retired = << >>
    /\ bwdLog = << >>

InitTile ==
    /\ BenchIdle
    /\ CholIdle
    /\ mode \in Tests \cup {"session"}
    /\ shape \in IF mode = "session" THEN {<<1, 1>>} ELSE Shapes
    /\ seed \in 0..(NumSeeds - 1)
    /\ hpc = 1
    /\ hostErr = ""
    /\ last = Stmt("", "", <<>>, "")
    /\ printed = <<>>
    /\ prim = IF mode = "session"
              THEN [A |-> Rand(seed, 0, shape), B |-> Const(shape, 0), C |-> Const(shape, 0)]
              ELSE NumpyArrays(mode, seed, shape)
    /\ grad = [a \in ArrNames |->
                IF mode = "session" /\ a = "C" THEN Const(shape, One) ELSE Const(shape, 0)]
    /\ tape = NewTape
    /\ queue = <<>>
    /\ dev = Idle
    /\ inv = [t \in Grid(shape) |-> [pc |-> 1, reg |-> NoRegs, adj |-> NoRegs]]
    /\ stores = NoStores
    /\ retired = <<>>
    /\ bwdLog = <<>>

NextTile ==
    \/ TapeEnter
    \/ HostLaunch
    \/ TapeExit
    \/ TapeRaise
    \/ HostSeedGrad
    \/ TapeBackward
    \/ HostAssert
    \/ HostPrint
    \/ DevStart
    \/ \E t \in DOMAIN inv : DevForward(t)
    \/ \E t \in DOMAIN inv : DevAdjoint(t)
    \/ DevFill
    \/ DevFinish

SpecTile == InitTile /\ [][NextTile]_vars

InitBench ==
    /\ TileIdle
    /\ CholIdle
    /\ bench \in Benchmarks
    /\ bphase = "setup"
    /\ bpc = 1
    /\ calls = 0
    /\ blast = Nop
    /\ self = [a \in {"test_array", "stream", "cmd", "graph", "a", "b", "c", "x", "y",
                      "z", "u", "v", "w", "sz", "s0"} |-> NoAttr]
    /\ mem = [h \in Handles |-> << >>]
    /\ capturing = FALSE
    /\ captured = << >>
    /\ squeue = [s \in Streams |-> << >>]
    /\ srun = [s \in Streams |-> NoLaunch]
    /\ sthr = [s \in Streams |-> NoThreads]
    /\ completed = [s \in Streams |-> 0]

NextBench ==
    \/ BenchHost
    \/ BenchLaunch
    \/ BenchCapture
    \/ BenchSync
    \/ Runner
    \/ \E s \in Streams : StreamStart(s)
    \/ \E s \in Streams : \E t \in 0..(N - 1) : ThreadStep(s, t)
    \/ \E s \in Streams : StreamFinish(s)

SpecBench == InitBench /\ [][NextBench]_vars

InitChol ==
    /\ TileIdle
    /\ BenchIdle
    /\ np_type = "float64"
    /\ cpc = 1
    /\ cerr = ""
    /\ cprinted = << >>
    /\ carr = [a \in {"A", "L", "X", "Y"} |-> "unset"]
    /\ cdev = 0
    /\ creg = [r \in {"a", "l", "x", "y"} |-> "unset"]

NextChol ==
    \/ CholHost
    \/ CholDevice

SpecChol == InitChol /\ [][NextChol]_vars

\* ===================================================================
\* Properties of the tile tests and the session
\* ===================================================================
OwnerTile(x) == << RowOf(x, shape) \div TILE_M, ColOf(x, shape) \div TILE_N >>
BlockOf(t) == {x \in ArrDom(shape) : OwnerTile(x) = t}
LaunchComplete == \A t \in DOMAIN inv : InvDone(t)
ForwardRetired == Len(retired) >= 1
BackwardRetired == Len(retired) >= 3 /\ retired[3] = "adjoint"

\* C1: while a tile kernel's launch runs, under every interleaving of its
\* invocations, an element is stored to at most once and only by the invocation
\* (i, j) whose block at origin (i*TILE_M, j*TILE_N) holds it, and an
\* invocation that has run to its end has stored every element of its block:
\* when the launch is complete every element was written by exactly one
\* invocation.
C1_PartitionInvariant ==
    dev.kind = "forward" =>
        /\ \A x \in DOMAIN stores :
            /\ Len(stores[x]) <= 1
            /\ \A k \in DOMAIN stores[x] : stores[x][k] = OwnerTile(x)
        /\ \A t \in DOMAIN inv :
            InvDone(t) => \A x \in BlockOf(t) : stores[x] = <<t>>

C1_Witness ==
    /\ dev.kind = "forward"
    /\ dev.kernel = "tile_binary_map"
    /\ Cardinality(DOMAIN inv) >= 3
    /\ LaunchComplete
    /\ \A x \in DOMAIN stores : Len(stores[x]) = 1

\* C2: in test_tile_copy, the tile an invocation has stored equals the tile
\* it loaded, element for element, and once the launch over the full grid is
\* complete B equals A at every index, whatever B held before.
C2_CopyRoundTrip ==
    mode = "test_tile_copy" =>
        LET np == NumpyArrays(mode, seed, shape)
        IN  /\ dev.kind = "forward" =>
                \A t \in DOMAIN inv :
                    InvDone(t) =>
                        /\ LoadTile(prim["B"], t, shape) = inv[t].reg["a"]
                        /\ inv[t].reg["a"] = LoadTile(np.A, t, shape)
            /\ ForwardRetired =>
                /\ prim["B"] = np.A
                /\ prim["A"] = np.A

C2_Witness ==
    /\ mode = "test_tile_copy"
    /\ Cardinality(DOMAIN inv) >= 3
    /\ ForwardRetired
    /\ \A x \in ArrDom(shape) : NumpyArrays(mode, seed, shape).B[x] # prim["B"][x]

\* C3: in test_tile_copy, once the launch recorded on the tape, the seeding
\* of B.grad and the one reverse pass are complete, A.grad equals B.grad at
\* every element, and B.grad is the seed.
C3_CopyGradientIdentity ==
    (mode = "test_tile_copy" /\ BackwardRetired) =>
        /\ grad["A"] = grad["B"]
        /\ grad["B"] = Const(shape, One)

C3_Witness ==
    /\ mode = "test_tile_copy"
    /\ BackwardRetired
    /\ Cardinality(DOMAIN inv) >= 3
    /\ tape.state = "Consumed"
    /\ grad["A"] = Const(shape, One)

\* C4: in test_tile_binary_map, once the forward launch is complete the
\* output is sin(a) + b at every element, and once the reverse pass is
\* complete the gradient of a is cos(a) times the seed and the gradient of b is
\* the seed, which is all ones.
C4_BinaryMap ==
    mode = "test_tile_binary_map" =>
        LET np == NumpyArrays(mode, seed, shape)
        IN  /\ ForwardRetired =>
                \A x \in ArrDom(shape) : prim["C"][x] = SinOf(np.A[x]) + np.B[x]
            /\ BackwardRetired =>
                \A x \in ArrDom(shape) :
                    /\ grad["A"][x] = Mul(CosOf(np.A[x]), grad["C"][x])
                    /\ grad["B"][x] = grad["C"][x]
                    /\ grad["B"][x] = One

C4_Witness ==
    /\ mode = "test_tile_binary_map"
    /\ BackwardRetired
    /\ Cardinality(DOMAIN inv) >= 3
    /\ \E x \in ArrDom(shape) : grad["A"][x] # grad["B"][x]
    /\ printed = << "Binary map forward passed", "Binary map backward passed" >>

Count(seq, s) == Cardinality({i \in DOMAIN seq : seq[i] = s})
HostIssues(s) == hpc' = hpc + 1 /\ last' = s

\* C5: a session only advances Idle -> Recording -> Recorded -> Consumed; a
\* launch is appended to its record only while it is Recording; leaving the
\* scope, normally or by an error, leaves it Recorded; a reverse pass on a
\* session that is not Recorded, a consumed one included, is a state error
\* that enqueues nothing, so no launch's gradient pass runs twice; and each
\* test invokes the reverse pass on a closed tape, exactly once.
C5_SessionLifecycle ==
    [][ /\ tape'.state # tape.state =>
              << tape.state, tape'.state >> \in
                  { << "Idle", "Recording" >>, << "Recording", "Recorded" >>,
                    << "Recorded", "Consumed" >> }
        /\ tape'.launches # tape.launches =>
              /\ tape.state = "Recording" /\ tape'.state = "Recording"
              /\ Len(tape'.launches) = Len(tape.launches) + 1
              /\ SubSeq(tape'.launches, 1, Len(tape.launches)) = tape.launches
        /\ (HostIssues(EndWith) \/ HostIssues(Raise)) => tape'.state = "Recorded"
        /\ (HostIssues(Backward) /\ tape.state # "Recorded") =>
              /\ hostErr' = "StateError"
              /\ queue' = queue
              /\ tape' = tape
        /\ Len(bwdLog') <= Len(tape'.launches)
        /\ (HostIssues(Backward) /\ mode \in Tests) =>
              /\ tape.state = "Recorded"
              /\ Count(SubSeq(Script(mode), 1, hpc), Backward) = 1
        /\ (mode \in Tests /\ hpc' > Len(Script(mode))) =>
              Count(Script(mode), Backward) = 1
      ]_vars

C5_Witness ==
    /\ tape.state = "Consumed"
    /\ last = Backward
    /\ hostErr = "StateError"
    /\ Len(tape.launches) >= 1
    /\ Len(bwdLog) = Len(tape.launches)

RevSeq(n) == [i \in 1..n |-> n + 1 - i]
IsPrefix(a, b) == Len(a) <= Len(b) /\ SubSeq(b, 1, Len(a)) = a

\* The gradients after the launches ls[1..n] of tile_copy have been walked
\* from the last to the first, each adding its output's gradient to its
\* input's.
RECURSIVE RefBackward(_, _, _)
RefBackward(ls, n, g) ==
    IF n > Len(ls) THEN g
    ELSE LET h == RefBackward(ls, n + 1, g)
             in == ls[n].args[1]
             out == ls[n].args[2]
         IN  [h EXCEPT ![in] = [x \in DOMAIN h[in] |-> h[in][x] + h[out][x]]]

SeededGrad == [a \in ArrNames |-> IF a = "C" THEN Const(shape, One) ELSE Const(shape, 0)]

\* C6: the gradient passes of the recorded launches L1..Ln start in the order
\* Ln, ..., L1, one at a time and only once the session is consumed; when the
\* reverse pass is complete each has run exactly once; and the gradient
\* buffers then hold what walking the record from the last launch to the first
\* propagates from the seeded output gradient.
C6_ReversePassOrder ==
    /\ IsPrefix(bwdLog, RevSeq(Len(tape.launches)))
    /\ bwdLog # <<>> => tape.state = "Consumed"
    /\ (tape.state = "Consumed" /\ Drained) =>
          /\ bwdLog = RevSeq(Len(tape.launches))
          /\ Count(retired, "adjoint") = Len(tape.launches)
          /\ mode = "session" => grad = RefBackward(tape.launches, 1, SeededGrad)

C6_Witness ==
    /\ mode = "session"
    /\ tape.state = "Consumed"
    /\ Drained
    /\ bwdLog = << 2, 1 >>
    /\ tape.launches[1].args = << "A", "B" >>
    /\ tape.launches[2].args = << "B", "C" >>
    /\ grad["A"] = Const(shape, One)

\* ===================================================================
\* Properties of the benchmarks
\* ===================================================================
InFlight ==
    UNION { {squeue[s][i] : i \in DOMAIN squeue[s]} : s \in Streams }
    \cup { srun[s] : s \in {u \in Streams : srun[u].kernel # ""} }

\* C7: in every run of a KernelLaunchParameters benchmark, whichever of the
\* struct and the flattened launch is timed and however many launches have
\* run, a, b and c hold the zeros they were created with, so the two variants
\* leave the same array contents; and the nine fields the struct kernel
\* receives are the nine values the flattened launch passes.
C7_StructFlatEquivalent ==
    (bench.class = "KernelLaunchParameters" /\ bphase # "setup") =>
        /\ \A h \in {"a", "b", "c"} : mem[h] = [i \in 0..0 |-> 0]
        /\ \A l \in InFlight :
            /\ l.kernel = "ksz" =>
                  [i \in DOMAIN SzFields |-> l.inputs[1][SzFields[i]]]
                      = [i \in DOMAIN Params("kz") |-> self[Params("kz")[i]]]
            /\ l.kernel = "ks0" => DOMAIN l.inputs[1] = {}

C7_Witness ==
    /\ bench.method = "time_struct_full"
    /\ bphase = "done"
    /\ completed["default"] >= 2
    /\ mem["a"] = [i \in 0..0 |-> 0]

\* C8: a statement executed inside a timed method is neither a device
\* synchronization nor a warmup launch; when the first timed call starts the
\* setup has just synchronized and no device work is outstanding; and the run
\* ends with the teardown's synchronization, no device work outstanding.
C8_TimedRegion ==
    /\ (bphase = "timed" /\ (bpc > 1 \/ calls > 0)) =>
          /\ blast.kind # "synchronize_device"
          /\ ~blast.warmup
    /\ (bphase = "timed" /\ bpc = 1 /\ calls = 0) =>
          /\ blast.kind = "synchronize_device"
          /\ BenchDrained
    /\ bphase = "done" =>
          /\ blast.kind = "synchronize_device"
          /\ BenchDrained
          /\ calls >= 1

C8_Witness ==
    /\ bench.method = "time_ten_graph_on_stream"
    /\ bphase = "teardown"
    /\ bpc = 1
    /\ calls >= 2
    /\ ~BenchDrained

\* The number of graph replays the host has issued.
Replays ==
    CASE bphase = "setup" ->
            Cardinality({i \in 1..(bpc - 1) : Method[i].kind = "capture_launch"})
      [] bphase = "timed" -> 5 + 10 * calls + (bpc - 1)
      [] OTHER -> 5 + 10 * calls
CompletedAll == completed["default"] + completed["stream"]
Running == Cardinality({s \in Streams : srun[s].kernel # ""})
Queued == Len(squeue["default"]) + Len(squeue["stream"])

\* C10: in a GraphLaunch benchmark the captured graph is the one launch of
\* inc_kernel over all N elements and the capture executes nothing; every
\* replay issued is queued, running or completed, once; every element has been
\* incremented once by each completed replay and at most once more by the
\* running one; so whenever no work is outstanding after the setup and k timed
\* calls, every element holds 5 + 10*k, under every interleaving of the
\* per-element invocations.
C10_GraphReplay ==
    bench.class = "GraphLaunch" =>
        /\ self.graph # NoAttr =>
              self.graph = << [kernel |-> "inc_kernel", dim |-> N,
                               inputs |-> << "test_array" >>] >>
        /\ capturing => CompletedAll + Running + Queued = 0
        /\ CompletedAll + Running + Queued = Replays
        /\ Running <= 1
        /\ mem["test_array"] # << >> =>
              \A i \in 0..(N - 1) :
                  /\ mem["test_array"][i] >= CompletedAll
                  /\ mem["test_array"][i] <= CompletedAll + Running
        /\ (BenchDrained /\ (bphase \in {"teardown", "done"} \/ (bphase = "timed" /\ bpc = 1))) =>
              \A i \in 0..(N - 1) : mem["test_array"][i] = 5 + 10 * calls

C10_Witness ==
    /\ bench.method = "time_ten_graph_on_stream"
    /\ bphase = "done"
    /\ calls = 2
    /\ completed["stream"] = 20
    /\ \A i \in 0..(N - 1) : mem["test_array"][i] = 25

\* ===================================================================
\* Properties of the Cholesky example
\* ===================================================================
\* The determinant of the rows rs and columns cs of M, expanded along the
\* first row.
RECURSIVE Det(_, _, _)
RECURSIVE DetSum(_, _, _, _)
Without(q, k) == [i \in 1..(Len(q) - 1) |-> IF i < k THEN q[i] ELSE q[i + 1]]
DetSum(M, rs, cs, k) ==
    IF k > Len(cs) THEN 0
    ELSE (IF k % 2 = 1 THEN 1 ELSE -1) * M[<<rs[1], cs[k]>>]
             * Det(M, Tail(rs), Without(cs, k))
         + DetSum(M, rs, cs, k + 1)
Det(M, rs, cs) == IF rs = << >> THEN 1 ELSE DetSum(M, rs, cs, 1)

Symmetric(M) == \A i, j \in 1..TILE : M[<<i, j>>] = M[<<j, i>>]
\* Sylvester's criterion: every leading principal minor is positive.
PositiveDefinite(M) ==
    \A k \in 1..TILE : Det(M, [i \in 1..k |-> i], [i \in 1..k |-> i]) > 0

Passed == \E i \in DOMAIN cprinted : cprinted[i] = "Example Tile Cholesky passed"

\* C9: the matrix the kernel factors is the symmetric positive-definite
\* ones plus 5 times the identity and its right-hand side is 0..TILE-1;
\* "Example Tile Cholesky passed" is printed only if the launch is complete
\* and both L and Y are within tolerance of the reference; if either is
\* beyond it the assert raises, the script stops at the assert and nothing
\* more is printed.
C9_CholeskyGate ==
    /\ cdev > 1 =>
          /\ creg["a"] = A_h
          /\ Symmetric(creg["a"])
          /\ PositiveDefinite(creg["a"])
    /\ cdev > 4 => creg["x"] = X_h
    /\ Passed =>
          /\ cdev > Len(cholesky)
          /\ AllClose(carr["L"])
          /\ AllClose(carr["Y"])
          /\ cerr = ""
    /\ (cpc > 19 /\ cerr = "") => (AllClose(carr["L"]) /\ AllClose(carr["Y"]))
    /\ cerr # "" =>
          /\ cerr = "AssertionError"
          /\ cpc = 19
          /\ ~Passed
          /\ ~(AllClose(carr["L"]) /\ AllClose(carr["Y"]))
    /\ (cpc = 19 /\ cdev > Len(cholesky) /\ cerr = ""
            /\ ~(AllClose(carr["L"]) /\ AllClose(carr["Y"]))) => ~Passed

C9_Witness ==
    /\ Passed
    /\ carr["L"] = "within"
    /\ carr["Y"] = "equal"
    /\ np_type = "float64"

====
